---- MODULE Spec2Model ----
(***************************************************************************)
(* Model of research/src/suite.py: the TestSuite benchmark orchestrator,   *)
(* its rate-limited producer, its queue consumer and its parallel fan-out. *)
(*                                                                         *)
(* Threads are asynchronous: the orchestrating thread (the caller driving  *)
(* the run() generator), one producer and one consumer thread per stress   *)
(* test, and the threads of the ThreadPoolExecutor.  The TestSuite object  *)
(* owns ONE queue and ONE stress_tests_finished attribute (__init__), and  *)
(* every thread reaches them through self.  No thread is ever joined, and  *)
(* a time.sleep() of one thread says nothing about how far another thread  *)
(* has got.                                                                *)
(*                                                                         *)
(* Steps that touch only what the executing thread owns are merged into    *)
(* the neighbouring step of the same thread; every read or write of the    *)
(* queue, of stress_tests_finished and of the clock is a step of its own.  *)
(***************************************************************************)
EXTENDS Integers, Sequences, FiniteSets, TLC

\* ------------------------------------------------------------------ bounds
\* number of registered clients (TestSuite.register calls before run())
NClients == 2
\* loop iterations of run() the caller drives in total, over all run() calls
MaxIters == 2
\* rows of the stress stream: test_data(max_producing_time * wps)
StressRows == 2
\* readers_count
NReaders == 2
\* rate-limiter period 1 / wps in clock ticks, where the clock runs
Period == 2
\* how far the clock may run beyond the producer's ideal schedule
MaxDelay == 3

\* run() calls a caller makes one after the other, each driven to its end
MaxRuns == 2

\* the durations measure_time may return
Durations == {1, 2}

\* the loop iterations of run(), numbered over all run() calls: as many as
\* MaxRuns complete calls go through
Iters == 1..(MaxRuns * NClients)
Clients == 1..NClients
Readers == 1..NReaders

\* the clock stops here
MaxTime == StressRows * Period + MaxDelay

\* ------------------------------------------------------------------ values
\* Queue items.  A row is <<k, i>>: the i-th row (i >= 1) taken from the data
\* of the producer of stress test k.  None (the sentinel) is <<k, 0>>; the
\* producer index is kept only to tell where a None came from.
Row(k, i) == <<k, i>>
None(k) == <<k, 0>>
IsNone(x) == x[2] = 0

\* Client handles.  A registered client c is <<c, <<>>>>; copy() yields a new
\* object of the same backend, named by the place that created it.
Template(c) == <<c, <<>>>>

\* (a variant: copy() hands back the object it was called on)
CopySame(h, tag) == h

Copy(h, tag) == <<h[1], tag>>

\* (a variant: every record is given the name of the first client)
DbmsNameFirst(c) == <<"dbms", 1>>

\* client.dbms_name of the registered client c
DbmsName(c) == <<"dbms", c>>

\* A duration measure_time returned in run_static_tests or run_stress_tests, or
\* a mean taken in run_parallel_read_tests, kept as where it comes from: the
\* registered client it was measured on and the loop iteration that measured it.
Measured(c, i) == <<c, i>>

\* lines 121-125, 160-163, 188-191: the dicts the three callees return
StaticTestsResult(c, i) ==
  [insert_100k_rows |-> Measured(c, i),
   retrieve_last_timecode |-> Measured(c, i),
   retrieve_most_viewed |-> Measured(c, i)]

StressTestsResult(c, i) ==
  [retrieve_last_timecode_under_load |-> Measured(c, i),
   retrieve_most_viewed_under_load |-> Measured(c, i)]

ParallelReadTestsResult(c, i) ==
  [retrieve_last_timecode_in_parallel |-> Measured(c, i),
   retrieve_most_viewed_in_parallel |-> Measured(c, i)]

\* A backend operation either completes or raises.
Outcomes == {"ok", "raise"}

VARIABLES
  budget,     \* input: loop iterations of run() the caller will drive
  period,     \* input: 1 / self.wps, in clock ticks
  stream_rows,    \* input: max_producing_time * self.wps, rows of a stress stream
  readers_count,  \* input: self.readers_count
  durations,  \* input: the durations the registered backends' reads can take, as
              \* measure_time returns them to the pool tasks
  opc,        \* orchestrating thread: position in run() and its callees
  runNo,      \* number of run() calls made so far
  cur,        \* index into self.clients of the current client (0: none)
  iter,       \* loop iterations of run() started so far, over all calls
  records,    \* the TestResults yielded
  queue,      \* self.queue
  stress_tests_finished,   \* self.stress_tests_finished
  ppc,        \* producer thread of stress test k: position in produce()
  prem,       \* rows left in its data iterator
  next_produce,  \* its local next_produce
  wake,       \* the clock value its time.sleep() returns at
  cpc,        \* consumer thread of stress test k: position in consume()
  chandle,    \* the client it was given (args=(client.copy(),))
  now,        \* time.time()
  fcall,      \* which run_in_parallel call of run_parallel_read_tests (0: none)
  fclones,    \* run_in_parallel: clients
  fres,       \* run_in_parallel: state of each pool task
  fdone,      \* history: the pool tasks in the order in which they finished
  fused,      \* history: the client each pool task called client_method on
  fcopies,    \* history: copy() calls of the current run_in_parallel call
  r1, r2,     \* run_parallel_read_tests: r1, r2
  t1, t2,     \* run_parallel_read_tests: t1, t2, each a fraction <<sum, divisor>>
  static_tests_result,         \* run(): the dict returned by run_static_tests
  stress_tests_result,         \* run(): the dict returned by run_stress_tests
  parallel_read_tests_result,  \* run(): the dict returned by run_parallel_read_tests
  psent,      \* history: how many times produce() k has put None
  pstart,     \* history: the clock value produce() k read at line 226
  pemit,      \* history: the clock values at which produce() k put its rows
  stopped,    \* history: line 158 of stress test k has been executed
  plate,      \* history: produce() k took the row it is about to put after line 158
              \* of stress test k had been executed
  cnone,      \* history: how many None consumer k has taken from the queue
  cafter,     \* history: how many items consumer k has taken after a None
  cdeq,       \* history: the values consumer k has taken from the queue, in order
  cfwd,       \* history: the values iter_queue() of consumer k has yielded to
              \* insert_data, in order
  curFailed   \* history: a backend operation raised during the current iteration

vars == <<budget, period, stream_rows, readers_count, durations, opc, runNo, cur, iter, records, queue,
          stress_tests_finished, ppc, prem, next_produce, wake, cpc, chandle,
          now, fcall, fclones, fres, fdone, fused, fcopies, r1, r2, t1, t2,
          static_tests_result, stress_tests_result, parallel_read_tests_result,
          psent, pstart, pemit, stopped, plate, cnone, cafter, cdeq, cfwd,
          curFailed>>

inputVars == <<budget, period, stream_rows, readers_count, durations>>
resultVars == <<static_tests_result, stress_tests_result,
                parallel_read_tests_result>>
prodVars == <<ppc, prem, next_produce, wake>>
consVars == <<cpc, chandle>>
fanVars == <<fcall, fclones, fres, fdone, fused, fcopies, r1, r2, t1, t2>>
prodHist == <<psent, pstart, pemit, stopped, plate>>
consHist == <<cnone, cafter, cdeq, cfwd>>

\* ------------------------------------------------------------------ Init
\* TestSuite.__init__ followed by NClients register() calls; run() not called.
Constructed ==
  /\ opc = "idle"
  /\ runNo = 0
  /\ cur = 0
  /\ iter = 0
  /\ records = <<>>
  /\ queue = <<>>
  /\ stress_tests_finished = FALSE
  /\ ppc = [k \in Iters |-> "none"]
  /\ prem = [k \in Iters |-> 0]
  /\ next_produce = [k \in Iters |-> 0]
  /\ wake = [k \in Iters |-> 0]
  /\ cpc = [k \in Iters |-> "none"]
  /\ chandle = [k \in Iters |-> <<>>]
  /\ now = 0
  /\ fcall = 0
  /\ fclones = <<>>
  /\ fres = <<>>
  /\ fdone = <<>>
  /\ fused = <<>>
  /\ fcopies = 0
  /\ r1 = <<>>
  /\ r2 = <<>>
  /\ t1 = <<>>
  /\ t2 = <<>>
  /\ static_tests_result = <<>>
  /\ stress_tests_result = <<>>
  /\ parallel_read_tests_result = <<>>
  /\ psent = [k \in Iters |-> 0]
  /\ pstart = [k \in Iters |-> 0]
  /\ pemit = [k \in Iters |-> <<>>]
  /\ stopped = [k \in Iters |-> FALSE]
  /\ plate = [k \in Iters |-> FALSE]
  /\ cnone = [k \in Iters |-> 0]
  /\ cafter = [k \in Iters |-> 0]
  /\ cdeq = [k \in Iters |-> <<>>]
  /\ cfwd = [k \in Iters |-> <<>>]
  /\ curFailed = FALSE

\* The period is below the resolution of the clock: the clock stands still and
\* every sleep returns at once.  A sleeping thread and a thread that is not
\* scheduled are the same to the other threads, so this leaves every
\* interleaving of the threads' steps possible.
Init ==
  /\ Constructed
  /\ budget = MaxIters
  /\ period = 0
  /\ stream_rows = StressRows
  /\ readers_count = 1
  /\ durations = {1}

\* ------------------------------------------------------------------ produce
\* line 226: next_produce = time.time()
ProduceBegin(k) ==
  /\ ppc[k] = "begin"
  /\ next_produce' = [next_produce EXCEPT ![k] = now]
  /\ wake' = [wake EXCEPT ![k] = now]
  /\ ppc' = [ppc EXCEPT ![k] = "next"]
  /\ pstart' = [pstart EXCEPT ![k] = now]
  /\ UNCHANGED <<prem, queue, stress_tests_finished, now>>
  /\ UNCHANGED <<inputVars, resultVars, opc, runNo, cur, iter, records, curFailed>>
  /\ UNCHANGED <<consVars, fanVars, psent, pemit, stopped, plate, consHist>>

\* (a variant: the signal is not looked at)
BreakNever(flag) == FALSE

\* line 229: if self.stress_tests_finished: break
Break(flag) == flag

\* (a variant: data never runs out)
ExhaustedNever(rem) == FALSE

\* line 228: for row in data ends when data, a generator of a given number of
\* rows (line 133), has none left
Exhausted(rem) == rem = 0

\* lines 228-230, once the time.sleep() of line 236 has returned (not before
\* the time asked for has passed): the for statement takes the next row, or
\* ends the loop when data is exhausted; with a row in hand the flag is read
\* and, when set, the loop is left.
ProduceNext(k) ==
  /\ ppc[k] = "next"
  /\ now >= wake[k]
  /\ IF Exhausted(prem[k])
       THEN /\ ppc' = [ppc EXCEPT ![k] = "sentinel"]
            /\ UNCHANGED <<prem, plate>>
       ELSE /\ prem' = [prem EXCEPT ![k] = @ - 1]
            /\ ppc' = [ppc EXCEPT ![k] =
                         IF Break(stress_tests_finished) THEN "sentinel" ELSE "put"]
            /\ plate' = [plate EXCEPT ![k] =
                           stopped[k] /\ ~Break(stress_tests_finished)]
  /\ UNCHANGED <<next_produce, wake, queue, stress_tests_finished, now>>
  /\ UNCHANGED <<inputVars, resultVars, opc, runNo, cur, iter, records, curFailed>>
  /\ UNCHANGED <<consVars, fanVars, psent, pstart, pemit, stopped, consHist>>

\* (a variant: the next target is one period after the row was put)
NextTargetFromNow(target, p) == now + p

\* line 234: next_produce += period
NextTarget(target, p) == target + p

\* (a variant: no sleep at all)
SleepTimeNone(target, t) == 0

\* lines 235-236: sleep_time = next_produce - time.time();
\* time.sleep(sleep_time > 0 and sleep_time or 0)
SleepTime(target, t) == IF target - t > 0 THEN target - t ELSE 0

\* lines 232-236: self.queue.put_nowait(row) (the queue is unbounded), then the
\* new target, the clock is read and the sleep is entered
ProducePut(k) ==
  /\ ppc[k] = "put"
  /\ queue' = Append(queue, Row(k, stream_rows - prem[k]))
  /\ next_produce' = [next_produce EXCEPT ![k] = NextTarget(@, period)]
  /\ wake' = [wake EXCEPT ![k] =
                now + SleepTime(NextTarget(next_produce[k], period), now)]
  /\ ppc' = [ppc EXCEPT ![k] = "next"]
  /\ pemit' = [pemit EXCEPT ![k] = Append(@, now)]
  /\ plate' = [plate EXCEPT ![k] = FALSE]
  /\ UNCHANGED <<prem, stress_tests_finished, now, psent, pstart, stopped>>
  /\ UNCHANGED <<inputVars, resultVars, opc, runNo, cur, iter, records, curFailed>>
  /\ UNCHANGED <<consVars, fanVars, consHist>>

\* (a variant: None is not put)
SentinelPutsNone(k) == <<>>

\* (a variant: None is put inside the loop's exit and again after it)
SentinelPutsTwice(k) == <<None(k), None(k)>>

\* line 238: self.queue.put(None)
SentinelPuts(k) == <<None(k)>>

ProduceSentinel(k) ==
  /\ ppc[k] = "sentinel"
  /\ queue' = queue \o SentinelPuts(k)
  /\ psent' = [psent EXCEPT ![k] = @ + Len(SentinelPuts(k))]
  /\ ppc' = [ppc EXCEPT ![k] = "done"]
  /\ UNCHANGED <<prem, next_produce, wake, stress_tests_finished, now>>
  /\ UNCHANGED <<pstart, pemit, stopped, plate>>
  /\ UNCHANGED <<inputVars, resultVars, opc, runNo, cur, iter, records, curFailed>>
  /\ UNCHANGED <<consVars, fanVars, consHist>>

Produce(k) ==
  \/ ProduceBegin(k)
  \/ ProduceNext(k)
  \/ ProducePut(k)
  \/ ProduceSentinel(k)

\* time passes
Tick ==
  /\ now < MaxTime
  /\ now' = now + 1
  /\ UNCHANGED <<queue, stress_tests_finished>>
  /\ UNCHANGED <<inputVars, resultVars, opc, runNo, cur, iter, records, curFailed>>
  /\ UNCHANGED <<prodVars, consVars, fanVars, prodHist, consHist>>

\* ------------------------------------------------------------------ consume
\* A backend operation of the consumer thread of stress test k raised.  It is
\* counted as a failure during the STRESS phase of iteration k when the
\* orchestrating thread is inside run_stress_tests of that iteration, threads
\* started (lines 148-158).
InStress(k) ==
  /\ iter = k
  /\ opc \in {"stress_warmup", "stress_measure", "stress_stop"}

NoteFailure(k, o) == IF o = "raise" /\ InStress(k) THEN TRUE ELSE curFailed

\* line 241: with client.connect()
ConsumeConnect(k) ==
  /\ cpc[k] = "connect"
  /\ \E o \in Outcomes :
       /\ cpc' = [cpc EXCEPT ![k] = IF o = "ok" THEN "get" ELSE "failed"]
       /\ curFailed' = NoteFailure(k, o)
  /\ UNCHANGED <<chandle, queue, stress_tests_finished, now>>
  /\ UNCHANGED <<inputVars, resultVars, opc, runNo, cur, iter, records>>
  /\ UNCHANGED <<prodVars, fanVars, prodHist, consHist>>

\* (a variant: the None is not recognised and the loop goes on)
EndOfStreamMissed(x) == FALSE

\* line 247: if row is None: return
EndOfStream(x) == IsNone(x)

\* (a variant: every value taken from the queue is yielded)
YieldedAll(x) == <<x>>

\* lines 247-249: what iter_queue() yields for a value taken from the queue
Yielded(x) == IF EndOfStream(x) THEN <<>> ELSE <<x>>

\* lines 244-249, driven by insert_data (line 242): row = self.queue.get()
\* blocks while the queue is empty; None ends the iteration, any other value is
\* yielded to insert_data, which may raise while handling it.
ConsumeGet(k) ==
  /\ cpc[k] = "get"
  /\ queue # <<>>
  /\ queue' = Tail(queue)
  /\ cnone' = [cnone EXCEPT ![k] = IF IsNone(Head(queue)) THEN @ + 1 ELSE @]
  /\ cafter' = [cafter EXCEPT ![k] = IF cnone[k] > 0 THEN @ + 1 ELSE @]
  /\ cdeq' = [cdeq EXCEPT ![k] = Append(@, Head(queue))]
  /\ cfwd' = [cfwd EXCEPT ![k] = @ \o Yielded(Head(queue))]
  /\ IF EndOfStream(Head(queue))
       THEN /\ cpc' = [cpc EXCEPT ![k] = "drained"]
            /\ UNCHANGED curFailed
       ELSE \E o \in Outcomes :
              /\ cpc' = [cpc EXCEPT ![k] = IF o = "ok" THEN "get" ELSE "failed"]
              /\ curFailed' = NoteFailure(k, o)
  /\ UNCHANGED <<chandle, stress_tests_finished, now>>
  /\ UNCHANGED <<inputVars, resultVars, opc, runNo, cur, iter, records>>
  /\ UNCHANGED <<prodVars, fanVars, prodHist>>

\* lines 241-242 after iter_queue() has returned: insert_data finishes the
\* write and the connection is released; consume() returns, or the write raises.
ConsumeFinish(k) ==
  /\ cpc[k] = "drained"
  /\ \E o \in Outcomes :
       /\ cpc' = [cpc EXCEPT ![k] = IF o = "ok" THEN "returned" ELSE "failed"]
       /\ curFailed' = NoteFailure(k, o)
  /\ UNCHANGED <<chandle, queue, stress_tests_finished, now>>
  /\ UNCHANGED <<inputVars, resultVars, opc, runNo, cur, iter, records>>
  /\ UNCHANGED <<prodVars, fanVars, prodHist, consHist>>

Consume(k) ==
  \/ ConsumeConnect(k)
  \/ ConsumeGet(k)
  \/ ConsumeFinish(k)

\* ------------------------------------------------------------------ run()
\* The phase of the current client's benchmark the orchestrating thread is in.
PhaseOf(pc) ==
  CASE pc = "prepare" -> "PREPARING"
    [] pc = "static" -> "STATIC"
    [] pc \in {"stress_setup", "stress_start_producer", "stress_start_consumer",
               "stress_warmup", "stress_measure", "stress_stop"}
         -> "STRESS"
    [] pc \in {"par1_submit", "par1_join", "par2_submit", "par2_join"}
         -> "PARALLEL"
    [] pc = "yield" -> "DONE"
    [] pc = "aborted" -> "ABORTED"
    [] OTHER -> "NONE"

\* (a variant: the exception is swallowed and the call carries on)
OnRaiseCarryOn(to) == to

\* (a variant: the exception is caught and a record is yielded all the same)
OnRaiseYield(to) == "yield"

\* Nothing in suite.py catches an exception: one raised on the orchestrating
\* thread leaves run(), and the generator is finished.
OnRaise(to) == "aborted"

\* The backend operations a callee makes on the orchestrating thread, in order:
\* all complete, or the first one that raises ends the call.
BackendOps(from, to, ops) ==
  /\ opc = from
  /\ \E failing \in 0..Len(ops) :
       /\ opc' = IF failing = 0 THEN to ELSE OnRaise(to)
       /\ curFailed' = IF failing = 0 THEN curFailed ELSE TRUE

\* The caller calls run() and starts iterating the generator it returns.
CallRun ==
  /\ opc \in {"idle", "finished", "aborted"}
  /\ iter < budget
  /\ opc' = "loop"
  /\ runNo' = runNo + 1
  /\ cur' = 0
  /\ fcall' = 0
  /\ fclones' = <<>> /\ fres' = <<>> /\ fused' = <<>> /\ fcopies' = 0
  /\ fdone' = <<>>
  /\ r1' = <<>> /\ r2' = <<>>
  /\ t1' = <<>> /\ t2' = <<>>
  /\ curFailed' = FALSE
  /\ static_tests_result' = <<>>
  /\ stress_tests_result' = <<>>
  /\ parallel_read_tests_result' = <<>>
  /\ UNCHANGED <<inputVars, iter, records, queue, stress_tests_finished, now>>
  /\ UNCHANGED <<prodVars, consVars, prodHist, consHist>>

\* lines 64-66: for client in self.clients, as far as the caller asks
LoopNext ==
  /\ opc = "loop"
  /\ IF cur < NClients
       THEN /\ iter < budget
            /\ cur' = cur + 1
            /\ iter' = iter + 1
            /\ opc' = "prepare"
       ELSE /\ opc' = "finished"
            /\ UNCHANGED <<cur, iter>>
  /\ curFailed' = FALSE
  /\ static_tests_result' = <<>>
  /\ stress_tests_result' = <<>>
  /\ parallel_read_tests_result' = <<>>
  /\ UNCHANGED <<inputVars, runNo, records, queue, stress_tests_finished, now>>
  /\ UNCHANGED <<prodVars, consVars, fanVars, prodHist, consHist>>

\* lines 94-102: connect, prepare_database, insert_data, time.sleep(1)
PrepareDatabase ==
  /\ BackendOps("prepare", "static",
                <<"connect", "prepare_database", "insert_data">>)
  /\ UNCHANGED <<inputVars, resultVars, runNo, cur, iter, records, queue,
                 stress_tests_finished, now>>
  /\ UNCHANGED <<prodVars, consVars, fanVars, prodHist, consHist>>

\* lines 105-125: connect, insert_data, time.sleep(1), the two reads
RunStaticTests ==
  /\ BackendOps("static", "stress_setup",
                <<"connect", "insert_data", "retrieve_last_timecode",
                  "retrieve_most_viewed">>)
  /\ static_tests_result' =
       IF opc' = "stress_setup" THEN StaticTestsResult(cur, iter)
                               ELSE static_tests_result
  /\ UNCHANGED <<stress_tests_result, parallel_read_tests_result>>
  /\ UNCHANGED <<inputVars, runNo, cur, iter, records, queue,
                 stress_tests_finished, now>>
  /\ UNCHANGED <<prodVars, consVars, fanVars, prodHist, consHist>>

\* lines 132-144: the data, the two Thread objects (the consumer's argument is
\* client.copy()) and self.stress_tests_finished = False
StressSetup ==
  /\ opc = "stress_setup"
  /\ opc' = "stress_start_producer"
  /\ prem' = [prem EXCEPT ![iter] = stream_rows]
  /\ ppc' = [ppc EXCEPT ![iter] = "created"]
  /\ cpc' = [cpc EXCEPT ![iter] = "created"]
  /\ chandle' = [chandle EXCEPT ![iter] = Copy(Template(cur), <<iter, 0, 0>>)]
  /\ stress_tests_finished' = FALSE
  /\ UNCHANGED <<inputVars, resultVars, runNo, cur, iter, records, queue, now, curFailed>>
  /\ UNCHANGED <<next_produce, wake, fanVars, prodHist, consHist>>

\* line 145: producer_thread.start()
StressStartProducer ==
  /\ opc = "stress_start_producer"
  /\ opc' = "stress_start_consumer"
  /\ ppc' = [ppc EXCEPT ![iter] = "begin"]
  /\ UNCHANGED <<inputVars, resultVars, runNo, cur, iter, records, queue,
                 stress_tests_finished, now, curFailed>>
  /\ UNCHANGED <<prem, next_produce, wake, consVars, fanVars, prodHist, consHist>>

\* line 146: consumer_thread.start()
StressStartConsumer ==
  /\ opc = "stress_start_consumer"
  /\ opc' = "stress_warmup"
  /\ cpc' = [cpc EXCEPT ![iter] = "connect"]
  /\ UNCHANGED <<inputVars, resultVars, runNo, cur, iter, records, queue,
                 stress_tests_finished, now, curFailed>>
  /\ UNCHANGED <<prodVars, chandle, fanVars, prodHist, consHist>>

\* (a variant: the signal is set before the measurements, at the warm-up)
StressWarmupSetsSignal ==
  /\ opc = "stress_warmup"
  /\ opc' = "stress_measure"
  /\ stress_tests_finished' = TRUE
  /\ UNCHANGED <<inputVars, resultVars, runNo, cur, iter, records, queue, now, curFailed>>
  /\ UNCHANGED <<prodVars, consVars, fanVars, prodHist, consHist>>

\* line 148: time.sleep(1)
StressWarmup ==
  /\ opc = "stress_warmup"
  /\ opc' = "stress_measure"
  /\ UNCHANGED <<inputVars, resultVars, runNo, cur, iter, records, queue,
                 stress_tests_finished, now, curFailed>>
  /\ UNCHANGED <<prodVars, consVars, fanVars, prodHist, consHist>>

\* lines 149-156: connect and the two measurements under load
StressMeasure ==
  /\ BackendOps("stress_measure", "stress_stop",
                <<"connect", "retrieve_last_timecode", "retrieve_most_viewed">>)
  /\ UNCHANGED <<inputVars, resultVars, runNo, cur, iter, records, queue,
                 stress_tests_finished, now>>
  /\ UNCHANGED <<prodVars, consVars, fanVars, prodHist, consHist>>

\* (a variant: both threads are joined before the call returns)
ThreadsJoined(k) == ppc[k] = "done" /\ cpc[k] \in {"returned", "failed"}

\* lines 158-163: what run_stress_tests waits for before it returns; there is
\* no join() on producer_thread or consumer_thread
ThreadsAwaited(k) == TRUE

\* line 158: self.stress_tests_finished = True, then the return
StressStop ==
  /\ opc = "stress_stop"
  /\ ThreadsAwaited(iter)
  /\ opc' = "par1_submit"
  /\ stress_tests_finished' = TRUE
  /\ stopped' = [stopped EXCEPT ![iter] = TRUE]
  /\ stress_tests_result' = StressTestsResult(cur, iter)
  /\ UNCHANGED <<static_tests_result, parallel_read_tests_result>>
  /\ UNCHANGED <<inputVars, runNo, cur, iter, records, queue, now, curFailed>>
  /\ UNCHANGED <<prodVars, consVars, fanVars, psent, pstart, pemit, plate, consHist>>

RunStressTests ==
  \/ StressSetup
  \/ StressStartProducer
  \/ StressStartConsumer
  \/ StressWarmup
  \/ StressMeasure
  \/ StressStop

\* ------------------------------------------------------------------ fan-out
\* The state of a pool task: not yet run, returned a duration, or raised.
Pending == <<"pending">>
Returned(d) == <<"returned", d>>
Raise == <<"raise">>

\* (a variant: every task is given the one client, [client] * threads_count)
ClonesShared(client, n, call) == [i \in 1..n |-> client]

\* line 199: clients = [client.copy() for _ in range(threads_count)]
Clones(client, n, call) == [i \in 1..n |-> Copy(client, <<iter, call, i>>)]

\* lines 199-202: the copies are made and pool.map submits one task per copy
\* to a pool of threads_count threads
FanOutSubmit(from, to, call) ==
  /\ opc = from
  /\ opc' = to
  /\ fcall' = call
  /\ fclones' = Clones(Template(cur), readers_count, call)
  /\ fcopies' = Len(Clones(Template(cur), readers_count, call))
  /\ fres' = [i \in DOMAIN fclones' |-> Pending]
  /\ fdone' = <<>>
  /\ fused' = [i \in DOMAIN fclones' |-> <<>>]
  /\ UNCHANGED <<r1, r2, t1, t2>>
  /\ UNCHANGED <<inputVars, resultVars, runNo, cur, iter, records, queue,
                 stress_tests_finished, now, curFailed>>
  /\ UNCHANGED <<prodVars, consVars, prodHist, consHist>>

\* the client the i-th task of pool.map(client_method, clients) is called on
TaskClient(clients, i) == clients[i]

\* A pool thread runs task i: client_method(clients[i]) (lines 206-223)
\* connects, measures and returns the duration, or raises.
FanOutWorker(i) ==
  /\ opc \in {"par1_join", "par2_join"}
  /\ i \in DOMAIN fres
  /\ fres[i] = Pending
  /\ fused' = [fused EXCEPT ![i] = TaskClient(fclones, i)]
  /\ fdone' = Append(fdone, i)
  /\ \E o \in {Returned(d) : d \in durations} \cup {Raise} :
       /\ fres' = [fres EXCEPT ![i] = o]
       /\ curFailed' = IF o = Raise THEN TRUE ELSE curFailed
  /\ UNCHANGED <<fcall, fclones, fcopies, r1, r2, t1, t2>>
  /\ UNCHANGED <<inputVars, resultVars, opc, runNo, cur, iter, records, queue,
                 stress_tests_finished, now>>
  /\ UNCHANGED <<prodVars, consVars, prodHist, consHist>>

\* line 204: list(results) re-raises the exception of the first task that
\* raised; otherwise it is the list of the results in the order of the clients
Raised(res) == \E i \in DOMAIN res : res[i] = Raise

\* (a variant: the results are listed as the tasks finish, as with
\* as_completed)
MapResultsAsCompleted(res) == [i \in DOMAIN res |-> res[fdone[i]][2]]

MapResults(res) == [i \in DOMAIN res |-> res[i][2]]

\* sum(r)
RECURSIVE Sum(_)
Sum(r) == IF r = <<>> THEN 0 ELSE Head(r) + Sum(Tail(r))

\* (a variant: the sum is not divided)
MeanUndivided(r, n) == <<Sum(r), 1>>

\* lines 179 and 186: sum(r) / self.readers_count, a float division; the
\* quotient is kept as the fraction <<sum, divisor>>
Mean(r, n) == <<Sum(r), n>>

\* lines 201-204: leaving the with block waits for every task, then
\* return list(results); back in run_parallel_read_tests the mean of the list
\* is taken (line 179 or 186)
FanOutJoin(from, to, call) ==
  /\ opc = from
  /\ \A i \in DOMAIN fres : fres[i] # Pending
  /\ IF Raised(fres)
       THEN /\ opc' = OnRaise(to)
            /\ UNCHANGED <<r1, r2, t1, t2, parallel_read_tests_result>>
       ELSE /\ opc' = to
            /\ r1' = IF call = 1 THEN MapResults(fres) ELSE r1
            /\ r2' = IF call = 2 THEN MapResults(fres) ELSE r2
            /\ t1' = IF call = 1 THEN Mean(MapResults(fres), readers_count) ELSE t1
            /\ t2' = IF call = 2 THEN Mean(MapResults(fres), readers_count) ELSE t2
            /\ parallel_read_tests_result' =
                 IF call = 2 THEN ParallelReadTestsResult(cur, iter)
                             ELSE parallel_read_tests_result
  /\ UNCHANGED <<fcall, fclones, fres, fdone, fused, fcopies>>
  /\ UNCHANGED <<static_tests_result, stress_tests_result>>
  /\ UNCHANGED <<inputVars, runNo, cur, iter, records, queue,
                 stress_tests_finished, now, curFailed>>
  /\ UNCHANGED <<prodVars, consVars, prodHist, consHist>>

\* lines 165-191
RunParallelReadTests ==
  \/ FanOutSubmit("par1_submit", "par1_join", 1)
  \/ FanOutJoin("par1_join", "par2_submit", 1)
  \/ FanOutSubmit("par2_submit", "par2_join", 2)
  \/ FanOutJoin("par2_join", "yield", 2)
  \/ \E i \in Readers : FanOutWorker(i)

\* lines 86-91: yield TestResult(...); the caller then asks for the next one.
\* The record has the fields of TestResult (dbms_name and the entries of the
\* three dicts) and, as history, the run() call, the client, the iteration and
\* whether an operation had raised.
Yield ==
  /\ opc = "yield"
  /\ opc' = "loop"
  /\ records' = Append(records,
                        [run |-> runNo, client |-> cur, iter |-> iter,
                         failed |-> curFailed, dbms_name |-> DbmsName(cur)]
                        @@ static_tests_result @@ stress_tests_result
                        @@ parallel_read_tests_result)
  /\ static_tests_result' = <<>>
  /\ stress_tests_result' = <<>>
  /\ parallel_read_tests_result' = <<>>
  /\ fcall' = 0
  /\ fclones' = <<>> /\ fres' = <<>> /\ fused' = <<>> /\ fcopies' = 0
  /\ fdone' = <<>>
  /\ r1' = <<>> /\ r2' = <<>>
  /\ t1' = <<>> /\ t2' = <<>>
  /\ UNCHANGED <<inputVars, runNo, cur, iter, queue, stress_tests_finished,
                 now, curFailed>>
  /\ UNCHANGED <<prodVars, consVars, prodHist, consHist>>

\* ------------------------------------------------------------------ Spec
Orchestrate ==
  \/ CallRun
  \/ LoopNext
  \/ PrepareDatabase
  \/ RunStaticTests
  \/ RunStressTests
  \/ RunParallelReadTests
  \/ Yield

Next ==
  \/ Orchestrate
  \/ \E k \in Iters : Produce(k)
  \/ \E k \in Iters : Consume(k)

Spec == Init /\ [][Next]_vars

\* One stress test against a running clock: a period of Period ticks, a caller
\* that drives one iteration of run().
InitTimed ==
  /\ Constructed
  /\ budget = 1
  /\ period = Period
  /\ stream_rows = StressRows
  /\ readers_count = 1
  /\ durations = {1}

NextTimed == Next \/ Tick

SpecTimed == InitTimed /\ [][NextTimed]_vars

\* The fan-out with readers_count = NReaders, beside a short stress stream, for
\* a caller that drives one iteration of run().
InitFan ==
  /\ Constructed
  /\ budget = 1
  /\ period = 0
  /\ stream_rows = 1
  /\ readers_count = NReaders
  /\ durations = Durations

SpecFan == InitFan /\ [][Next]_vars

\* The fan-out with readers_count = NReaders for a caller that drives two
\* iterations, so that threads of an earlier stress test are still about.
InitIso ==
  /\ Constructed
  /\ budget = MaxIters
  /\ period = 0
  /\ stream_rows = 1
  /\ readers_count = NReaders
  /\ durations = {1}

SpecIso == InitIso /\ [][Next]_vars

\* One registered backend whose operations do not fail, under fair scheduling
\* of the threads: no backend operation raises, and a producer or consumer
\* thread that can take a step eventually takes one (a sleep ends, a get() on a
\* queue that is not empty returns).  Nothing is assumed of the caller of
\* run(), who is free never to ask the generator for more.
NoFailure ==
  /\ opc # "aborted"
  /\ \A k \in Iters : cpc[k] # "failed"
  /\ \A i \in DOMAIN fres : fres[i] # Raise

InitLive ==
  /\ Constructed
  /\ budget = 1
  /\ period = 0
  /\ stream_rows = StressRows
  /\ readers_count = 1
  /\ durations = {1}

NextLive == Next /\ NoFailure'

Fairness ==
  \A k \in Iters :
    /\ WF_vars(Produce(k) /\ NoFailure')
    /\ WF_vars(Consume(k) /\ NoFailure')

SpecLive == InitLive /\ [][NextLive]_vars /\ Fairness

\* One stress test in which any backend operation may raise, on the
\* orchestrating thread as on the others; the producer thread, once started,
\* keeps being scheduled (its sleeps return at once).  Nothing is assumed of
\* the other threads.
FairProducer == \A k \in Iters : WF_vars(Produce(k))

SpecProducer == InitLive /\ [][Next]_vars /\ FairProducer

\* MaxRuns run() calls, each driven to its end, with no failing operation.  The
\* caller makes a further run() call once the threads of the stress tests of
\* the call before have ended; within a call the threads of one client's stress
\* test run on beside the next client's benchmark.
Quiescent ==
  \A k \in Iters : ppc[k] \in {"none", "done"} /\ cpc[k] \in {"none", "returned"}

InitRuns ==
  /\ Constructed
  /\ budget = MaxRuns * NClients
  /\ period = 0
  /\ stream_rows = 1
  /\ readers_count = 1
  /\ durations = {1}

NextRuns == NextLive /\ (runNo' # runNo => Quiescent)

SpecRuns == InitRuns /\ [][NextRuns]_vars

\* ==================================================================
\* Properties
\* ==================================================================
Running(k) == ppc[k] \in {"begin", "next", "put", "sentinel"}
Consuming(k) == cpc[k] \in {"connect", "get", "drained"}
Rows(k) == Len(pemit[k])

\* C1: every produce() call that has ended, by exhaustion of its rows or by
\* the stop signal, has put None on the queue exactly once, and a call that
\* has not ended has put none yet.
C1_SentinelExactlyOnce ==
  \A k \in Iters :
    /\ ppc[k] = "done" => psent[k] = 1
    /\ ppc[k] # "done" => psent[k] = 0

\* two produce() calls have ended, one with all its rows put and one stopped
\* early
C1_Witness ==
  \E k, j \in Iters :
    /\ ppc[k] = "done" /\ Rows(k) = stream_rows /\ prem[k] = 0
    /\ ppc[j] = "done" /\ Rows(j) < stream_rows /\ stopped[j]

\* C2 as stated: a consumer that has ended has returned if and only if it has
\* taken exactly one None from the queue.
C2_ReturnsIffSentinel ==
  \A k \in Iters :
    cpc[k] \in {"returned", "failed"} => (cpc[k] = "returned" <=> cnone[k] = 1)

\* C2, amended: consume() returns only after its iter_queue() has taken exactly
\* one None; before that None it is connecting or iterating, after it it takes
\* nothing more from the queue and has only the end of insert_data and the
\* release of the connection left, which returns or raises.
C2_ReturnsOnlyAfterSentinel ==
  \A k \in Iters :
    /\ cpc[k] = "returned" => cnone[k] = 1
    /\ cnone[k] = 0 => cpc[k] \in {"none", "created", "connect", "get", "failed"}
    /\ cnone[k] > 0 => cnone[k] = 1 /\ cpc[k] \in {"drained", "returned", "failed"}
    /\ cafter[k] = 0

\* a consumer has returned after forwarding rows, another raised after its None
C2_Witness ==
  \E k, j \in Iters :
    /\ cpc[k] = "returned" /\ cnone[k] = 1
    /\ cpc[j] = "failed" /\ cnone[j] = 1

\* C3: once line 158 of a stress test has set the stop signal, the producer of
\* that stress test takes no further row to put (it puts at most the row it had
\* already taken, within the period it is in), and it puts None when it ends.
C3_StopsWithinOnePeriod ==
  \A k \in Iters :
    /\ ~plate[k]
    /\ (ppc[k] = "done" /\ stopped[k]) => psent[k] = 1

\* C4: when a stress test is about to start its threads, the queue is empty and
\* no producer or consumer of an earlier stress test is still running on the
\* queue and the flag.
C4_FreshQueueAndSignal ==
  opc = "stress_start_producer" =>
    /\ queue = <<>>
    /\ \A j \in Iters : j # iter => ~Running(j) /\ ~Consuming(j)

\* C5: while a producer is running, the stop signal never goes from true to
\* false.
C5_SignalMonotonic ==
  [][(\E k \in Iters : Running(k)) /\ stress_tests_finished
        => stress_tests_finished']_vars

\* C6 as stated: any two rows of one producer, the i-th and the j-th, are at
\* least (j - i) periods apart, so that a window of length T holds at most
\* T / period + 1 rows.
C6_AnyWindow ==
  \A k \in Iters : \A i, j \in 1..Rows(k) :
    i < j => (j - i) * period <= pemit[k][j] - pemit[k][i]

\* C6, amended: counted from the start of the producer (line 226), the j-th row
\* is put no earlier than j - 1 periods after the start, so that a window of
\* length T that begins at the start holds at most T / period + 1 rows,
\* whatever the delays.
C6_WindowFromStart ==
  \A k \in Iters : \A j \in 1..Rows(k) :
    pemit[k][j] >= pstart[k] + (j - 1) * period

\* a producer that was held up for more than a period before its first row
\* has put two rows
C6_Witness ==
  \E k \in Iters :
    /\ period > 0
    /\ Rows(k) >= 2
    /\ pemit[k][1] > pstart[k] + period

\* C7: when a run_in_parallel call has returned, it has made readers_count
\* copies, client_method has been called exactly once on each of them and
\* never on the client passed in, and the list returned has readers_count
\* durations.
CalledOn(h) == Cardinality({i \in DOMAIN fused : fused[i] = h})

FanOutReturned == (fcall = 1 /\ opc = "par2_submit") \/ (fcall = 2 /\ opc = "yield")

C7_FanOutCounts ==
  /\ fcall > 0 => CalledOn(Template(cur)) = 0
  /\ FanOutReturned =>
       /\ fcopies = readers_count
       /\ Len(fclones) = readers_count
       /\ \A i \in DOMAIN fclones : CalledOn(fclones[i]) = 1
       /\ Len(IF fcall = 1 THEN r1 ELSE r2) = readers_count
       /\ \A i \in DOMAIN fres : fres[i][1] = "returned"

\* the second call has returned with two or more workers
C7_Witness ==
  /\ fcall = 2 /\ opc = "yield"
  /\ readers_count >= 2
  /\ Len(r2) = readers_count

\* C8: once a task of a run_in_parallel call has raised, the call returns no
\* list (r1 or r2 stays unset, whatever the other tasks returned): the
\* orchestrating thread is waiting for the pool or has left run() with the
\* exception, and no record of this iteration is ever yielded.
C8_WorkerFailureAborts ==
  (fcall > 0 /\ Raised(fres)) =>
    /\ opc \in {IF fcall = 1 THEN "par1_join" ELSE "par2_join", "aborted"}
    /\ fcall = 1 => r1 = <<>>
    /\ r2 = <<>>
    /\ \A n \in DOMAIN records : records[n].iter # iter

\* the call has ended with the exception although another task had returned
C8_Witness ==
  /\ opc = "aborted"
  /\ fcall > 0
  /\ Raised(fres)
  /\ \E i \in DOMAIN fres : fres[i][1] = "returned"

\* C9: no record is yielded for an iteration during which a backend operation
\* raised, on the orchestrating thread or, during STRESS, on the consumer thread
\* it started.
C9_NoRecordAfterFailure ==
  \A n \in DOMAIN records : ~records[n].failed

\* C10: the orchestrating thread goes through PREPARING, STATIC, STRESS,
\* PARALLEL, DONE in this order for every iteration, leaves the order only by an
\* exception, and yields a record only from DONE, one per iteration.
PhaseSteps ==
  {<<"NONE", "PREPARING">>, <<"PREPARING", "STATIC">>, <<"STATIC", "STRESS">>,
   <<"STRESS", "PARALLEL">>, <<"PARALLEL", "DONE">>, <<"DONE", "NONE">>,
   <<"PREPARING", "ABORTED">>, <<"STATIC", "ABORTED">>, <<"STRESS", "ABORTED">>,
   <<"PARALLEL", "ABORTED">>, <<"ABORTED", "NONE">>}

C10_PhaseOrder ==
  [][/\ PhaseOf(opc) # PhaseOf(opc') => <<PhaseOf(opc), PhaseOf(opc')>> \in PhaseSteps
     /\ iter' # iter <=> (PhaseOf(opc) = "NONE" /\ PhaseOf(opc') = "PREPARING")
     /\ records' # records <=> PhaseOf(opc) = "DONE" /\ PhaseOf(opc') = "NONE"
     /\ records' # records =>
          /\ Len(records') = Len(records) + 1
          /\ records'[Len(records')].iter = iter]_vars

\* the second iteration has reached DONE after the first one's record
C10_Witness ==
  /\ opc = "yield"
  /\ iter = 2
  /\ Len(records) = 1

\* The threads that hold a client object for their backend operations, each
\* with the object it holds: the orchestrating thread inside prepare_database,
\* run_static_tests or the measurements of run_stress_tests, a consumer thread
\* that has not ended, a pool task that has not ended.
HandleUsers ==
  (IF opc \in {"prepare", "static", "stress_measure"}
     THEN {<<<<"run">>, Template(cur)>>}
     ELSE {})
  \cup {<<<<"consume", k>>, chandle[k]>> : k \in {j \in Iters : Consuming(j)}}
  \cup {<<<<"pool", i>>, fclones[i]>> :
          i \in {j \in DOMAIN fres : opc \in {"par1_join", "par2_join"} /\ fres[j] = Pending}}

\* C11: no client object is held by two threads at once; a consumer holds a
\* copy and never a registered client, and the pool tasks hold distinct copies,
\* also while threads of an earlier stress test are still running.
C11_HandleIsolation ==
  /\ \A u, v \in HandleUsers : u[2] = v[2] => u[1] = v[1]
  /\ \A k \in Iters : Consuming(k) => chandle[k] \notin {Template(c) : c \in Clients}

\* two consumers of the same backend are alive, one from an earlier stress
\* test, while two pool tasks are pending
C11_Witness ==
  /\ \E k, j \in Iters :
       k # j /\ Consuming(k) /\ Consuming(j) /\ chandle[k][1] = chandle[j][1]
  /\ opc \in {"par1_join", "par2_join"}
  /\ Len(fres) >= 2
  /\ \A i \in DOMAIN fres : fres[i] = Pending

\* C12: each parallel-read result is the sum of the durations its fan-out
\* returned divided by their number, which is readers_count.
C12_MeanOfDurations ==
  /\ opc = "yield" => r1 # <<>> /\ r2 # <<>>
  /\ r1 # <<>> =>
       /\ Len(r1) = readers_count
       /\ t1[2] > 0
       /\ t1[1] * Len(r1) = Sum(r1) * t1[2]
  /\ r2 # <<>> =>
       /\ Len(r2) = readers_count
       /\ t2[2] > 0
       /\ t2[1] * Len(r2) = Sum(r2) * t2[2]

\* both results are set, from two workers each whose durations differ
C12_Witness ==
  /\ opc = "yield"
  /\ readers_count >= 2
  /\ r1[1] # r1[2]
  /\ r2[1] # r2[2]
  /\ t1[1] = r1[1] + r1[2]

\* the None values put so far on self.queue, by all producers
RECURSIVE SentinelsPut(_)
SentinelsPut(k) == IF k = 0 THEN 0 ELSE psent[k] + SentinelsPut(k - 1)

StressStarted ==
  {"stress_start_producer", "stress_start_consumer", "stress_warmup",
   "stress_measure", "stress_stop"}

\* C14: in a stress test the signal is false when the threads are started, the
\* producer is started, then the consumer, then comes the warm-up, then the
\* measurements; the signal stays false until they have completed and is set
\* by the step that follows them, and by no other step.
C14_StressOrder ==
  [][/\ opc' \in StressStarted => ~stress_tests_finished'
     /\ (opc' # opc /\ opc' = "stress_start_producer") =>
          opc = "stress_setup" /\ ppc'[iter] = "created" /\ cpc'[iter] = "created"
     /\ (opc' # opc /\ opc = "stress_start_producer") =>
          /\ opc' = "stress_start_consumer"
          /\ ppc[iter] = "created" /\ ppc'[iter] = "begin" /\ cpc'[iter] = "created"
     /\ (opc' # opc /\ opc = "stress_start_consumer") =>
          /\ opc' = "stress_warmup"
          /\ ppc[iter] # "created" /\ cpc[iter] = "created" /\ cpc'[iter] = "connect"
     /\ (opc' # opc /\ opc = "stress_warmup") => opc' = "stress_measure"
     /\ (opc' # opc /\ opc = "stress_measure") =>
          \/ opc' = "stress_stop" /\ curFailed' = curFailed
          \/ opc' = "aborted"
     /\ (opc' # opc /\ opc = "stress_stop") =>
          opc' = "par1_submit" /\ stress_tests_finished'
     /\ (~stress_tests_finished /\ stress_tests_finished') => opc = "stress_stop"]_vars

\* the second stress test has gone through the whole order after the first
C14_Witness ==
  /\ opc = "par1_submit"
  /\ iter = 2
  /\ stopped[1] /\ stopped[2]
  /\ stress_tests_finished

\* C15: the j-th row put (counting from 1) is put no earlier than the start
\* plus j - 1 periods; the target is the start plus one period per row put,
\* however late the rows were put; and the sleep entered after a row is the
\* target minus the clock when that is positive and 0 otherwise, so it is 0
\* while the producer is behind its schedule and at most one period.
C15_DriftCorrected ==
  \A k \in Iters :
    /\ \A j \in 1..Rows(k) : pemit[k][j] >= pstart[k] + (j - 1) * period
    /\ ppc[k] \in {"next", "put", "sentinel", "done"} =>
         next_produce[k] = pstart[k] + Rows(k) * period
    /\ Rows(k) >= 1 =>
         LET t == pemit[k][Rows(k)]
             sleep == wake[k] - t
         IN /\ sleep = (IF next_produce[k] - t > 0 THEN next_produce[k] - t ELSE 0)
            /\ t >= next_produce[k] => sleep = 0
            /\ sleep <= period

\* a producer put its first row on time and its second more than a period
\* late
C15_Witness ==
  \E k \in Iters :
    /\ period > 0
    /\ Rows(k) = 2
    /\ pemit[k][1] = pstart[k]
    /\ pemit[k][2] > pstart[k] + 2 * period
    /\ wake[k] = pemit[k][2]

\* C16: the producer reads the signal once for every row it takes from its
\* data, before putting it; a row is put only after a reading that found the
\* signal unset, one row per reading; a reading that finds it set ends the loop
\* whatever is left of the data, and from then on the producer puts no row: the
\* one value it still puts is None, after which it has ended.
C16_CheckedPerRow ==
  [][\A k \in Iters :
       /\ (ppc[k] = "next" /\ ppc'[k] # "next") =>
            /\ (prem[k] > 0 /\ stress_tests_finished) =>
                 ppc'[k] = "sentinel" /\ prem'[k] = prem[k] - 1
            /\ (prem[k] > 0 /\ ~stress_tests_finished) =>
                 ppc'[k] = "put" /\ prem'[k] = prem[k] - 1
            /\ prem[k] = 0 => ppc'[k] = "sentinel"
       /\ pemit'[k] # pemit[k] =>
            /\ ppc[k] = "put" /\ ppc'[k] = "next"
            /\ Len(pemit'[k]) = Len(pemit[k]) + 1
            /\ queue' = Append(queue, Row(k, Len(pemit'[k])))
       /\ (ppc[k] = "sentinel" /\ ppc'[k] # "sentinel") =>
            ppc'[k] = "done" /\ queue' = Append(queue, None(k))
       /\ ppc[k] = "done" => ppc'[k] = "done" /\ psent'[k] = psent[k]
       /\ ppc[k] \in {"sentinel", "done"} => pemit'[k] = pemit[k]]_vars

\* a producer found the signal set with a row of its data in hand, and has
\* ended after its None
C16_Witness ==
  \E k \in Iters :
    /\ ppc[k] = "done"
    /\ stream_rows >= 2
    /\ Rows(k) = 1
    /\ prem[k] = stream_rows - 2
    /\ psent[k] = 1

\* the values of a sequence that are not None
NonSentinels(seq) == SelectSeq(seq, LAMBDA x : ~IsNone(x))

\* C17: the rows a consumer forwards to insert_data are the values other than
\* None that it took from the queue, in the order it took them, none left out
\* and none twice.  What it takes is always the head of the queue, which is
\* removed; the queue grows only at its tail and only by a put of a producer,
\* so that a None taken is neither forwarded nor put back.
C17_ForwardsWhatItTakes ==
  [][/\ \A k \in Iters :
          /\ cfwd'[k] = NonSentinels(cdeq'[k])
          /\ cdeq'[k] # cdeq[k] =>
               /\ queue # <<>>
               /\ cdeq'[k] = Append(cdeq[k], Head(queue))
               /\ queue' = Tail(queue)
               /\ \A j \in Iters \ {k} : cdeq'[j] = cdeq[j]
     /\ queue' # queue =>
          \/ cdeq' # cdeq /\ queue' = Tail(queue)
          \/ /\ cdeq' = cdeq
             /\ Len(queue') = Len(queue) + 1
             /\ SubSeq(queue', 1, Len(queue)) = queue
             /\ \E k \in Iters : ppc[k] \in {"put", "sentinel"} /\ ppc'[k] # ppc[k]]_vars

\* a consumer has taken two rows and a None and has returned
C17_Witness ==
  \E k \in Iters :
    /\ cpc[k] = "returned"
    /\ Len(cdeq[k]) = 3
    /\ Len(cfwd[k]) = 2
    /\ IsNone(cdeq[k][3])

\* C18: every row the consumer of stress test k forwards was put by the
\* producer of stress test k, and the None it ends on is that producer's.
C18_PairedProducerConsumer ==
  \A k \in Iters :
    /\ \A n \in DOMAIN cfwd[k] : cfwd[k][n][1] = k
    /\ \A n \in DOMAIN cdeq[k] : IsNone(cdeq[k][n]) => cdeq[k][n] = None(k)

\* C19: run_stress_tests never waits for its threads: whenever the
\* orchestrating thread has the measurements behind it, the step that sets the
\* signal and returns to run() can be taken, whatever the producer and the
\* consumer are doing.
C19_ReturnsWithoutJoin ==
  opc = "stress_stop" => ENABLED StressStop

\* the next client is being prepared, after the record of the first was
\* yielded, while the producer and the consumer of the first stress test are
\* both still running
C19_Witness ==
  /\ opc = "prepare"
  /\ iter = 2
  /\ Len(records) = 1
  /\ stopped[1]
  /\ Running(1)
  /\ Consuming(1)

\* C20: with one stress test, no failing operation and fair scheduling, once
\* line 158 has set the signal the producer puts its None and ends, the
\* consumer takes it and returns, and the queue is empty from then on.
C20_StressTestDrains ==
  \A k \in Iters :
    stopped[k] ~> [](ppc[k] = "done" /\ cpc[k] = "returned" /\ queue = <<>>)

\* the producer was stopped before it had put all its rows, both threads have
\* ended and the queue is empty
C20_Witness ==
  \E k \in Iters :
    /\ stopped[k]
    /\ Rows(k) < stream_rows
    /\ ppc[k] = "done"
    /\ cpc[k] = "returned"
    /\ queue = <<>>
    /\ Len(cdeq[k]) = Rows(k) + 1

\* the fields of a TestResult (lines 25-34)
TestResultFields ==
  {"dbms_name", "insert_100k_rows", "retrieve_last_timecode",
   "retrieve_most_viewed", "retrieve_last_timecode_under_load",
   "retrieve_most_viewed_under_load", "retrieve_last_timecode_in_parallel",
   "retrieve_most_viewed_in_parallel"}

\* C21: with no failing operation the n-th record yielded is that of run() call
\* (n - 1) \div NClients + 1 for the client registered in place
\* (n - 1) % NClients + 1: one record per client per call, in the order of
\* registration.  It has that client's name and seven measurements, all taken
\* on that client in the loop iteration that yields it.  A run() call that has
\* ended has yielded NClients records, and a call under way is at the client
\* that follows its last record, the first client when it has none.
C21_OneRecordPerBackend ==
  /\ \A n \in DOMAIN records :
       LET rec == records[n]
           c == ((n - 1) % NClients) + 1
       IN /\ rec.run = ((n - 1) \div NClients) + 1
          /\ rec.client = c
          /\ rec.iter = n
          /\ TestResultFields \subseteq DOMAIN rec
          /\ rec.dbms_name = <<"dbms", c>>
          /\ \A f \in TestResultFields \ {"dbms_name"} : rec[f] = Measured(c, n)
  /\ opc = "finished" => Len(records) = runNo * NClients
  /\ opc = "loop" => cur = Len(records) - (runNo - 1) * NClients
  /\ PhaseOf(opc) \in {"PREPARING", "STATIC", "STRESS", "PARALLEL", "DONE"} =>
       /\ runNo = (Len(records) \div NClients) + 1
       /\ cur = (Len(records) % NClients) + 1

\* the second run() call has ended, after a record for every client
C21_Witness ==
  /\ opc = "finished"
  /\ runNo = 2
  /\ Len(records) = 2 * NClients
  /\ records[NClients + 1].client = 1
  /\ records[NClients + 1].run = 2

\* C22: the list run_in_parallel returns is in submission order: its i-th
\* element is the duration measured on the i-th copy made of the client,
\* whatever the order in which the pool tasks finished.
C22_SubmissionOrder ==
  FanOutReturned =>
    LET r == IF fcall = 1 THEN r1 ELSE r2
    IN /\ DOMAIN r = 1..readers_count
       /\ \A i \in DOMAIN r :
            /\ \E j \in DOMAIN fused : fused[j] = Copy(Template(cur), <<iter, fcall, i>>)
            /\ \A j \in DOMAIN fused :
                 fused[j] = Copy(Template(cur), <<iter, fcall, i>>) => r[i] = fres[j][2]

\* a call has returned whose tasks finished in the reverse of the submission
\* order with different durations
C22_Witness ==
  /\ FanOutReturned
  /\ Len(fdone) >= 2
  /\ fdone[1] > fdone[2]
  /\ fres[1][2] # fres[2][2]
  /\ (IF fcall = 1 THEN r1 ELSE r2)[1] = fres[1][2]

\* C23: a started producer of one stress test ends whether or not the stop
\* signal is ever set: it puts at most stream_rows rows (10 * wps in the
\* code), then None once, and is done.
C23_ProducerTerminates ==
  /\ [](\A k \in Iters :
          /\ Rows(k) <= stream_rows
          /\ ppc[k] = "done" => psent[k] = 1)
  /\ \A k \in Iters : (ppc[k] = "begin") ~> (ppc[k] = "done")

\* the foreground measurement raised before line 158: the signal was never set
\* and the producer has ended all the same, having put every row and None
C23_Witness ==
  /\ opc = "aborted"
  /\ ~stress_tests_finished
  /\ ~stopped[1]
  /\ ppc[1] = "done"
  /\ Rows(1) = stream_rows
  /\ psent[1] = 1

====
